---- MODULE Spec2Model ----
(***************************************************************************)
(* Particle effects system (particles.js): the lifecycle of the simulation *)
(* instances (ParticleSystem / GeometricParticleSystem), the registry      *)
(* (ParticleManager), the governor (PerformanceManager) and the host's     *)
(* frame scheduler (requestAnimationFrame), as one state machine.          *)
(*                                                                         *)
(* Every handler of the page runs to completion on the single JavaScript   *)
(* thread, so every action below is one whole handler.                     *)
(*                                                                         *)
(* Abstractions of the host, all stated here:                              *)
(*  - a particle is the object createParticles made: it carries `build`,   *)
(*    the number (modulo BuildMod) of the createParticles call that made   *)
(*    it, so that a rebuilt set differs from the set it replaces, and      *)
(*    `updated`, whether update() has been applied to it since; the canvas *)
(*    counts in `frameCount` the frames painted on it, modulo FrameMod.    *)
(*  - requestAnimationFrame handles: positive integers, unique among the   *)
(*    outstanding requests; which unused integer the host returns is       *)
(*    immaterial, and the model hands the caller the least one of its own  *)
(*    residue class that no outstanding request holds.                     *)
(*  - all containers of the document have the bounding box `rect`.         *)
(*  - time: `elapsed` is performance.now() - lastTime, the only form in    *)
(*    which checkFrameRate reads the clock; a frame tick arrives dt ms     *)
(*    after the previous reading (a long dt is a stalled page), and the    *)
(*    time a page stayed hidden is added when it becomes visible; as       *)
(*    checkFrameRate only tests elapsed >= 1000, `elapsed` stops at 1000.  *)
(***************************************************************************)
EXTENDS Integers, Sequences, FiniteSets, TLC

VARIABLES
    pc,            \* "loading" before DOMContentLoaded, then "ready"
    env,           \* the host: 2D context, innerWidth, deviceMemory, connection, reduced motion
    doc,           \* the document: a sequence of containers [hero, tag]
    hidden,        \* document.hidden
    rect,          \* container.getBoundingClientRect(): <<width, height>>
    elapsed,       \* performance.now() - lastTime, in ms
    created,       \* the instances constructed so far, in construction (listener) order
    inst,          \* instance key -> the ParticleSystem object
    systems,       \* ParticleManager.systems: the keys, in insertion order
    rafQueue,      \* the host's outstanding frame requests, in registration order
    gov,           \* PerformanceManager: isHighPerformance, frames, started
    optimizeRuns,  \* number of optimizeParticles() executions
    lowAgain,      \* a window with fps < 30 closed while the flag was already low
    stage,         \* one instance with its particles' coordinates (the frame arithmetic)
    frameLog       \* what the last animate() on the stage did, in order

vars == <<pc, env, doc, hidden, rect, elapsed, created, inst, systems, rafQueue, gov, optimizeRuns, lowAgain,
          stage, frameLog>>

-----------------------------------------------------------------------------
(* Bounds of the exploration *)

BuildMod == 2
FrameMod == 2

(* Inputs of the host: the time between two frame ticks, in ms *)

FrameDts == { 500, 1000 }

FineDts == { 34, 1000 }

(* Inputs of the host: how long the page stayed hidden, in ms *)

HiddenMs == { 0, 1000 }

(* Program constants *)

Null == 0
BaseWidth == 1920
BaseHeight == 1080
Breakpoint == 768
MinDeviceMemory == 4
WindowMs == 1000
MinFps == 30

Sizes == { <<1920, 1080>>, <<960, 540>>, <<2560, 1440>> }

Shapes == << "triangle", "square", "hexagon" >>

PointerAt == { << 20, 20 >> }

Keys == { "hero-0", "hero-1", "section-0", "section-1" }

GovOwner == "checkFrameRate"

WideHost ==
    [ctx2d |-> TRUE, innerWidth |-> 1920, deviceMemory |-> 8, effectiveType |-> "4g", reducedMotion |-> FALSE]

HeroGeometric == << [hero |-> TRUE, tag |-> "geometric"] >>

Pages ==
    { [env |-> WideHost, doc |-> HeroGeometric],
      [env |-> WideHost, doc |-> << [hero |-> FALSE, tag |-> "subtle"] >>],
      [env |-> [WideHost EXCEPT !.innerWidth = 768, !.deviceMemory = 0, !.effectiveType = "none"],
       doc |-> << [hero |-> FALSE, tag |-> ""] >>],
      [env |-> [WideHost EXCEPT !.ctx2d = FALSE], doc |-> HeroGeometric],
      [env |-> [WideHost EXCEPT !.innerWidth = 600], doc |-> HeroGeometric],
      [env |-> [WideHost EXCEPT !.deviceMemory = 2], doc |-> HeroGeometric],
      [env |-> [WideHost EXCEPT !.effectiveType = "slow-2g"], doc |-> HeroGeometric],
      [env |-> [WideHost EXCEPT !.reducedMotion = TRUE], doc |-> HeroGeometric] }

-----------------------------------------------------------------------------
(* Helpers *)

Range(s) == { s[j] : j \in DOMAIN s }

Merge(over, base) ==
    [f \in (DOMAIN over) \cup (DOMAIN base) |-> IF f \in DOMAIN over THEN over[f] ELSE base[f]]

RECURSIVE HeroSections(_, _)
HeroSections(d, j) ==
    IF j > Len(d) THEN << >>
    ELSE IF d[j].hero THEN << j >> \o HeroSections(d, j + 1)
    ELSE HeroSections(d, j + 1)

RECURSIVE ParticleSections(_, _)
ParticleSections(d, j) ==
    IF j > Len(d) THEN << >>
    ELSE IF d[j].tag # "none" THEN << j >> \o ParticleSections(d, j + 1)
    ELSE ParticleSections(d, j + 1)

-----------------------------------------------------------------------------
(* The mutable program state handed through a handler *)

World ==
    [inst |-> inst, raf |-> rafQueue, systems |-> systems, created |-> created,
     gov |-> gov, optimizeRuns |-> optimizeRuns, lowAgain |-> lowAgain]

Commit(w) ==
    /\ rafQueue' = w.raf
    /\ systems' = w.systems
    /\ created' = w.created
    /\ gov' = w.gov
    /\ optimizeRuns' = w.optimizeRuns
    /\ lowAgain' = w.lowAgain
    /\ inst' = w.inst

-----------------------------------------------------------------------------
(* The host's frame scheduler *)

Owners == << GovOwner, "hero-0", "hero-1", "section-0", "section-1" >>

OwnerIndex(owner) == CHOOSE j \in DOMAIN Owners : Owners[j] = owner

UsedHandles(w) == { w.raf[j].id : j \in DOMAIN w.raf }

NewHandle(w, owner) ==
    LET mine == { OwnerIndex(owner) + n * Len(Owners) : n \in 0 .. Cardinality(UsedHandles(w)) }
    IN  CHOOSE h \in mine :
            /\ h \notin UsedHandles(w)
            /\ \A g \in mine : g < h => g \in UsedHandles(w)

RequestAnimationFrame(w, h, owner) ==
    [w EXCEPT !.raf = Append(@, [id |-> h, owner |-> owner])]

CancelAnimationFrame(w, h) ==
    [w EXCEPT !.raf = SelectSeq(@, LAMBDA r : r.id # h)]

Outstanding(q, k) == { j \in DOMAIN q : q[j].owner = k }

-----------------------------------------------------------------------------
(* Particle *)

NewParticle(geometric, build, j) ==
    [build |-> build,
     updated |-> FALSE,
     shape |-> IF geometric THEN Shapes[(j % Len(Shapes)) + 1] ELSE "circle"]

Update(p) == [p EXCEPT !.updated = TRUE]

-----------------------------------------------------------------------------
(* ParticleSystem *)

Config(options) ==
    Merge(options,
          [particleCount |-> 50,
           connectionDistance |-> 150,
           particleColor |-> "rgba(46, 204, 113, 0.6)",
           connectionColor |-> "rgba(46, 204, 113, 0.2)",
           mouseInteraction |-> TRUE,
           mouseRadius |-> 100,
           responsive |-> TRUE])

ScaledCountUncapped(count, r) ==
    (count * (r[1] * r[2])) \div (BaseWidth * BaseHeight)

ScaledCount(count, r) ==
    IF r[1] * r[2] >= BaseWidth * BaseHeight THEN count
    ELSE (count * (r[1] * r[2])) \div (BaseWidth * BaseHeight)

ResizeCanvas(s, r) ==
    [s EXCEPT !.canvas.width = r[1],
              !.canvas.height = r[2],
              !.config.particleCount =
                  IF s.config.responsive THEN ScaledCount(@, r) ELSE @]

CreateCanvas(s, r) ==
    ResizeCanvas([s EXCEPT !.canvas.attached = TRUE], r)

CreateParticles(s) ==
    [s EXCEPT !.builds = (@ + 1) % BuildMod,
              !.particles =
                  [j \in 1 .. s.config.particleCount |->
                      NewParticle(s.geometric, (s.builds + 1) % BuildMod, j)]]

Paint(s) ==
    [s EXCEPT !.frameCount = (@ + 1) % FrameMod,
              !.particles = [j \in DOMAIN s.particles |-> Update(s.particles[j])]]

AnimateOnce(w, k) ==
    [w EXCEPT !.inst[k] = [Paint(@) EXCEPT !.animationId = NewHandle(w, k)]]

Animate(w, k) ==
    LET h == NewHandle(w, k)
        w1 == [w EXCEPT !.inst[k] = Paint(@)]
        w2 == RequestAnimationFrame(w1, h, k)
    IN  [w2 EXCEPT !.inst[k].animationId = h]

PauseKeepsRequest(w, k) ==
    IF w.inst[k].animationId # Null
    THEN [w EXCEPT !.inst[k].animationId = Null]
    ELSE w

Pause(w, k) ==
    IF w.inst[k].animationId # Null
    THEN [CancelAnimationFrame(w, w.inst[k].animationId) EXCEPT !.inst[k].animationId = Null]
    ELSE w

ResumeUnguarded(w, k) == Animate(w, k)

Resume(w, k) ==
    IF w.inst[k].animationId = Null THEN Animate(w, k) ELSE w

DestroyKeepsLoop(w, k) ==
    IF w.inst[k].canvas.attached
    THEN [w EXCEPT !.inst[k].canvas.attached = FALSE]
    ELSE w

Destroy(w, k) ==
    LET w1 == Pause(w, k)
    IN  IF w1.inst[k].canvas.attached
        THEN [w1 EXCEPT !.inst[k].canvas.attached = FALSE]
        ELSE w1

OnResizeRestarts(w, k, r) ==
    Animate([w EXCEPT !.inst[k] = CreateParticles(ResizeCanvas(@, r))], k)

OnResize(w, k, r) ==
    [w EXCEPT !.inst[k] = CreateParticles(ResizeCanvas(@, r))]

OnMouseMoveShared(w, k, m) ==
    [w EXCEPT !.inst = [j \in DOMAIN @ |-> [@[j] EXCEPT !.mouse = [x |-> m[1], y |-> m[2]]]]]

OnMouseMove(w, k, m) ==
    [w EXCEPT !.inst[k].mouse = [x |-> m[1], y |-> m[2]]]

OnMouseLeave(w, k) ==
    [w EXCEPT !.inst[k].mouse = [x |-> -1000, y |-> -1000]]

OnVisibilityUnguarded(w, k, h) ==
    IF h THEN Pause(w, k) ELSE Animate(w, k)

OnVisibility(w, k, h) ==
    IF h THEN Pause(w, k) ELSE Resume(w, k)

NewSystem(w, key, c, geometric, options, r) ==
    LET s0 == [container |-> c,
               geometric |-> geometric,
               canvas |-> [width |-> 0, height |-> 0, attached |-> FALSE],
               particles |-> << >>,
               builds |-> 0,
               mouse |-> [x |-> 0, y |-> 0],
               animationId |-> Null,
               config |-> Config(options),
               frameCount |-> 0]
        s1 == CreateParticles(CreateCanvas(s0, r))
        w1 == [w EXCEPT !.inst = (key :> s1) @@ @,
                        !.created = Append(@, key)]
    IN  Animate(w1, key)

-----------------------------------------------------------------------------
(* ParticleManager *)

HeroKey(index) == << "hero-0", "hero-1" >>[index + 1]

SectionKey(index) == << "section-0", "section-1" >>[index + 1]

HeroOptions(e) ==
    [particleCount |-> IF e.innerWidth > Breakpoint THEN 60 ELSE 30,
     connectionDistance |-> 120,
     particleColor |-> "rgba(46, 204, 113, 0.8)",
     connectionColor |-> "rgba(46, 204, 113, 0.15)",
     mouseRadius |-> 120]

GetOptionsForType(type, e) ==
    LET baseOptions == [particleCount |-> IF e.innerWidth > Breakpoint THEN 40 ELSE 20,
                        mouseInteraction |-> TRUE]
    IN  CASE type = "subtle" ->
               Merge([particleCount |-> 25,
                      particleColor |-> "rgba(148, 163, 184, 0.4)",
                      connectionColor |-> "rgba(148, 163, 184, 0.1)"], baseOptions)
          [] type = "geometric" ->
               Merge([particleCount |-> 20,
                      particleColor |-> "rgba(46, 204, 113, 0.6)"], baseOptions)
          [] type = "floating" ->
               Merge([particleColor |-> "rgba(255, 255, 255, 0.6)",
                      connectionDistance |-> 80,
                      mouseRadius |-> 80], baseOptions)
          [] OTHER -> baseOptions

RECURSIVE InitHeroParticles(_, _, _, _, _)
InitHeroParticles(w, d, sections, index, r) ==
    IF index >= Len(sections) THEN w
    ELSE LET key == HeroKey(index)
             w1 == NewSystem(w, key, sections[index + 1], FALSE, HeroOptions(env), r)
             w2 == [w1 EXCEPT !.systems = Append(@, key)]
         IN  InitHeroParticles(w2, d, sections, index + 1, r)

RECURSIVE InitSectionParticles(_, _, _, _, _)
InitSectionParticles(w, d, sections, index, r) ==
    IF index >= Len(sections) THEN w
    ELSE LET key == SectionKey(index)
             c == sections[index + 1]
             type == IF d[c].tag = "" THEN "default" ELSE d[c].tag
             w1 == NewSystem(w, key, c, type = "geometric", GetOptionsForType(type, env), r)
             w2 == [w1 EXCEPT !.systems = Append(@, key)]
         IN  InitSectionParticles(w2, d, sections, index + 1, r)

ParticleManagerInit(w, d, r) ==
    LET w1 == InitHeroParticles(w, d, HeroSections(d, 1), 0, r)
    IN  InitSectionParticles(w1, d, ParticleSections(d, 1), 0, r)

RECURSIVE PauseEach(_, _)
PauseEach(w, ks) ==
    IF ks = << >> THEN w ELSE PauseEach(Pause(w, Head(ks)), Tail(ks))

RECURSIVE ResumeEach(_, _)
ResumeEach(w, ks) ==
    IF ks = << >> THEN w ELSE ResumeEach(Resume(w, Head(ks)), Tail(ks))

RECURSIVE DestroyEach(_, _)
DestroyEach(w, ks) ==
    IF ks = << >> THEN w ELSE DestroyEach(Destroy(w, Head(ks)), Tail(ks))

PauseAll(w) == PauseEach(w, w.systems)

ResumeAll(w) == ResumeEach(w, w.systems)

DestroyAllFirstOnly(w) ==
    [(IF w.systems = << >> THEN w ELSE Destroy(w, Head(w.systems))) EXCEPT !.systems = << >>]

DestroyAll(w) == [DestroyEach(w, w.systems) EXCEPT !.systems = << >>]

-----------------------------------------------------------------------------
(* PerformanceManager *)

DetectIgnoresMemory(e) ==
    IF ~e.ctx2d \/ e.innerWidth < Breakpoint THEN FALSE
    ELSE ~(e.effectiveType # "none" /\ e.effectiveType = "slow-2g")

DetectPerformance(e) ==
    IF ~e.ctx2d \/ e.innerWidth < Breakpoint THEN FALSE
    ELSE /\ ~(e.deviceMemory # 0 /\ e.deviceMemory < MinDeviceMemory)
         /\ ~(e.effectiveType # "none" /\ e.effectiveType = "slow-2g")

MonitorFrameRate(w) ==
    RequestAnimationFrame(
        [w EXCEPT !.gov.frames = 0, !.gov.started = TRUE],
        NewHandle(w, GovOwner), GovOwner)

PerformanceManagerInit(w, e) ==
    MonitorFrameRate([w EXCEPT !.gov.isHighPerformance = @ /\ DetectPerformance(e)])

OptimizeKeepsParticles(w) ==
    [w EXCEPT !.optimizeRuns = @ + 1,
              !.inst = [k \in DOMAIN @ |->
                  IF k \in Range(w.systems)
                  THEN [@[k] EXCEPT !.config.particleCount = (@ * 6) \div 10]
                  ELSE @[k]]]

OptimizeParticles(w) ==
    [w EXCEPT !.optimizeRuns = @ + 1,
              !.inst = [k \in DOMAIN @ |->
                  IF k \in Range(w.systems)
                  THEN CreateParticles([@[k] EXCEPT !.config.particleCount = (@ * 6) \div 10])
                  ELSE @[k]]]

CheckFrameRateAnyFlag(w, t) ==
    LET frames == w.gov.frames + 1
        closes == t >= WindowMs
        low == closes /\ frames < MinFps
        w1 == [w EXCEPT !.gov.frames = IF closes THEN 0 ELSE frames,
                        !.lowAgain = @ \/ (low /\ ~w.gov.isHighPerformance),
                        !.gov.isHighPerformance = IF low THEN FALSE ELSE @]
        w2 == IF low THEN OptimizeParticles(w1) ELSE w1
    IN  RequestAnimationFrame(w2, NewHandle(w2, GovOwner), GovOwner)

CheckFrameRate(w, t) ==
    LET frames == w.gov.frames + 1
        closes == t >= WindowMs
        flip == closes /\ frames < MinFps /\ w.gov.isHighPerformance
        low == closes /\ frames < MinFps
        w1 == [w EXCEPT !.gov.frames = IF closes THEN 0 ELSE frames,
                        !.lowAgain = @ \/ (low /\ ~w.gov.isHighPerformance),
                        !.gov.isHighPerformance = IF flip THEN FALSE ELSE @]
        w2 == IF flip THEN OptimizeParticles(w1) ELSE w1
    IN  RequestAnimationFrame(w2, NewHandle(w2, GovOwner), GovOwner)

-----------------------------------------------------------------------------
(* The handlers of the page *)

RECURSIVE RunCallbacks(_, _, _)
RunCallbacks(w, cbs, t) ==
    IF cbs = << >> THEN w
    ELSE LET cb == Head(cbs)
             w1 == IF cb.owner = GovOwner
                   THEN CheckFrameRate(w, t)
                   ELSE Animate(w, cb.owner)
         IN  RunCallbacks(w1, Tail(cbs), t)

RECURSIVE ResizeListeners(_, _, _)
ResizeListeners(w, ks, r) ==
    IF ks = << >> THEN w
    ELSE ResizeListeners(OnResize(w, Head(ks), r), Tail(ks), r)

RECURSIVE VisibilityListeners(_, _, _)
VisibilityListeners(w, ks, h) ==
    IF ks = << >> THEN w
    ELSE VisibilityListeners(OnVisibility(w, Head(ks), h), Tail(ks), h)

Init ==
    /\ pc = "loading"
    /\ \E page \in Pages : env = page.env /\ doc = page.doc
    /\ hidden \in BOOLEAN
    /\ rect \in Sizes
    /\ elapsed = 0
    /\ created = << >>
    /\ inst = << >>
    /\ systems = << >>
    /\ rafQueue = << >>
    /\ gov = [isHighPerformance |-> TRUE, frames |-> 0, started |-> FALSE]
    /\ optimizeRuns = 0
    /\ lowAgain = FALSE
    /\ stage = << >>
    /\ frameLog = << >>

DOMContentLoaded ==
    /\ pc = "loading"
    /\ pc' = "ready"
    /\ IF env.reducedMotion
       THEN Commit(World)
       ELSE LET w1 == PerformanceManagerInit(World, env)
            IN  IF w1.gov.isHighPerformance
                THEN Commit(ParticleManagerInit(w1, doc, rect))
                ELSE Commit(w1)
    /\ UNCHANGED <<stage, frameLog, env, doc, hidden, rect, elapsed>>

Tick(dt) ==
    /\ pc = "ready"
    /\ ~hidden
    /\ LET t == elapsed + dt
       IN  /\ elapsed' = IF gov.started /\ t < WindowMs THEN t ELSE 0
           /\ Commit(RunCallbacks([World EXCEPT !.raf = << >>], rafQueue, t))
    /\ UNCHANGED <<stage, frameLog, pc, env, doc, hidden, rect>>

FrameTick == \E dt \in FrameDts : Tick(dt)

FineFrameTick == \E dt \in FineDts : Tick(dt)

VisibilityAfter(ms) ==
    /\ pc = "ready"
    /\ hidden' = ~hidden
    /\ elapsed' = IF hidden /\ gov.started /\ elapsed + ms >= WindowMs THEN WindowMs
                  ELSE IF hidden /\ gov.started THEN elapsed + ms
                  ELSE elapsed
    /\ UNCHANGED <<stage, frameLog, pc, env, doc, rect>>
    /\ LET w1 == IF ~hidden THEN PauseAll(World) ELSE ResumeAll(World)
       IN  Commit(VisibilityListeners(w1, created, ~hidden))

VisibilityChange == VisibilityAfter(0)

LongVisibilityChange == \E ms \in HiddenMs : VisibilityAfter(ms)

Resize ==
    /\ pc = "ready"
    /\ \E r \in Sizes :
          /\ rect' = r
          /\ Commit(ResizeListeners(World, created, r))
    /\ UNCHANGED <<stage, frameLog, pc, env, doc, hidden, elapsed>>

BeforeUnload ==
    /\ pc = "ready"
    /\ UNCHANGED <<stage, frameLog, pc, env, doc, hidden, rect, elapsed>>
    /\ Commit(DestroyAll(World))

PauseCall(k) ==
    /\ k \in DOMAIN inst
    /\ UNCHANGED <<stage, frameLog, pc, env, doc, hidden, rect, elapsed>>
    /\ Commit(Pause(World, k))

ResumeCall(k) ==
    /\ k \in DOMAIN inst
    /\ UNCHANGED <<stage, frameLog, pc, env, doc, hidden, rect, elapsed>>
    /\ Commit(Resume(World, k))

DestroyCall(k) ==
    /\ k \in DOMAIN inst
    /\ UNCHANGED <<stage, frameLog, pc, env, doc, hidden, rect, elapsed>>
    /\ Commit(Destroy(World, k))

PauseAllCall ==
    /\ pc = "ready"
    /\ UNCHANGED <<stage, frameLog, pc, env, doc, hidden, rect, elapsed>>
    /\ Commit(PauseAll(World))

ResumeAllCall ==
    /\ pc = "ready"
    /\ UNCHANGED <<stage, frameLog, pc, env, doc, hidden, rect, elapsed>>
    /\ Commit(ResumeAll(World))

PointerMove(k) ==
    /\ k \in DOMAIN inst
    /\ inst[k].config.mouseInteraction
    /\ UNCHANGED <<stage, frameLog, pc, env, doc, hidden, rect, elapsed>>
    /\ \E m \in PointerAt : Commit(OnMouseMove(World, k, m))

PointerLeave(k) ==
    /\ k \in DOMAIN inst
    /\ inst[k].config.mouseInteraction
    /\ UNCHANGED <<stage, frameLog, pc, env, doc, hidden, rect, elapsed>>
    /\ Commit(OnMouseLeave(World, k))

Next ==
    \/ DOMContentLoaded
    \/ FrameTick
    \/ VisibilityChange
    \/ Resize
    \/ BeforeUnload
    \/ \E k \in Keys : PauseCall(k)
    \/ \E k \in Keys : ResumeCall(k)
    \/ \E k \in Keys : DestroyCall(k)
    \/ PauseAllCall
    \/ ResumeAllCall

Spec == Init /\ [][Next]_vars

(* The governor against a host whose frame rate can stay above the floor *)

NextGov ==
    \/ DOMContentLoaded
    \/ FineFrameTick
    \/ LongVisibilityChange
    \/ BeforeUnload
    \/ \E k \in Keys : DestroyCall(k)

SpecGov == Init /\ [][NextGov]_vars

(* The frame loop of the instances in containers that keep their size *)

NextLoop ==
    \/ DOMContentLoaded
    \/ FrameTick
    \/ VisibilityChange
    \/ BeforeUnload
    \/ \E k \in Keys : PauseCall(k)
    \/ \E k \in Keys : ResumeCall(k)
    \/ \E k \in Keys : DestroyCall(k)
    \/ PauseAllCall
    \/ ResumeAllCall

SpecLoop == Init /\ [][NextLoop]_vars

\* The host keeps delivering frame ticks while the page is visible: weak fairness
\* of FrameTick, WF_vars(FrameTick), with its enabling condition written out (a
\* tick of 500 ms always changes `elapsed`, so a tick that changes the state is
\* enabled exactly when the page is ready and visible).
TicksKeepComing == []<>~(pc = "ready" /\ ~hidden) \/ []<><<FrameTick>>_vars

SpecLive == Init /\ [][NextLoop]_vars /\ TicksKeepComing

(* The operations on one instance, with the pointer of its container *)

NextPointer ==
    \/ DOMContentLoaded
    \/ FrameTick
    \/ \E k \in Keys : PointerMove(k)
    \/ \E k \in Keys : PointerLeave(k)
    \/ \E k \in Keys : PauseCall(k)
    \/ \E k \in Keys : ResumeCall(k)
    \/ \E k \in Keys : DestroyCall(k)
    \/ PauseAllCall

SpecPointer == Init /\ [][NextPointer]_vars

-----------------------------------------------------------------------------
(* The frame arithmetic: one instance on a stage, with its particles' coordinates.
   Numbers are fixed point: a length or a velocity is a whole number of 1/Scale
   pixel, a ratio (force, opacity, alpha, cosine) a whole number of 1/One, and
   every operation truncates toward zero where the double would round.  A number
   is << n >>, and NaN is << >>.  The floating phase `angle` is counted in quarter
   turns and advances one per update, so sin(angle) takes the values 0, 1, 0, -1;
   the particle's size plays no part in what is modelled.  `pointer` records the
   last pointer event of the container: "none", "moved" or "left". *)

MaxFrames == 3

Scale == 100

One == 1000

NaN == << >>

Num(n) == << n >>

Finite(a) == Len(a) = 1

Val(a) == a[1]

Trunc(n, d) == IF n >= 0 THEN n \div d ELSE -((-n) \div d)

Add(a, b) == IF Finite(a) /\ Finite(b) THEN Num(Val(a) + Val(b)) ELSE NaN

Sub(a, b) == IF Finite(a) /\ Finite(b) THEN Num(Val(a) - Val(b)) ELSE NaN

Mul(a, b) == IF Finite(a) /\ Finite(b) THEN Num(Val(a) * Val(b)) ELSE NaN

Less(a, b) == Finite(a) /\ Finite(b) /\ Val(a) < Val(b)

\* a * n / d
Scaled(a, n, d) == IF Finite(a) THEN Num(Trunc(Val(a) * n, d)) ELSE NaN

\* a / b as a ratio; 0 / 0 is NaN (x / 0 for x # 0, an infinity, needs a negative
\* threshold, which no configuration here has)
Quot(a, b) ==
    IF Finite(a) /\ Finite(b) /\ Val(b) # 0 THEN Num(Trunc(Val(a) * One, Val(b))) ELSE NaN

RECURSIVE SqrtIn(_, _, _)
SqrtIn(n, lo, hi) ==
    IF lo >= hi THEN lo
    ELSE LET mid == (lo + hi + 1) \div 2
         IN  IF mid <= n \div mid THEN SqrtIn(n, mid, hi) ELSE SqrtIn(n, lo, mid - 1)

Sqrt(a) == IF Finite(a) /\ Val(a) >= 0 THEN Num(SqrtIn(Val(a), 0, Val(a))) ELSE NaN

SinQuarter(angle) == << 0, One, 0, -One >>[(angle % 4) + 1]

\* cos and sin of atan2(dy, dx); atan2(0, 0) is 0
CosAtan2(dy, dx, distance) ==
    IF Finite(distance) /\ Val(distance) = 0 THEN Num(One) ELSE Quot(dx, distance)

SinAtan2(dy, dx, distance) ==
    IF Finite(distance) /\ Val(distance) = 0 THEN Num(0) ELSE Quot(dy, distance)

(* Strings: a colour is the sequence of its characters *)

Digits == << "0", "1", "2", "3", "4", "5", "6", "7", "8", "9" >>

Chars(color) ==
    CASE color = "rgba(46, 204, 113, 0.6)" ->
           << "r", "g", "b", "a", "(", "4", "6", ",", " ", "2", "0", "4", ",", " ", "1", "1", "3", ",", " ", "0", ".", "6", ")" >>
      [] color = "rgba(46, 204, 113, 0.8)" ->
           << "r", "g", "b", "a", "(", "4", "6", ",", " ", "2", "0", "4", ",", " ", "1", "1", "3", ",", " ", "0", ".", "8", ")" >>
      [] color = "rgba(148, 163, 184, 0.4)" ->
           << "r", "g", "b", "a", "(", "1", "4", "8", ",", " ", "1", "6", "3", ",", " ", "1", "8", "4", ",", " ", "0", ".", "4", ")" >>
      [] color = "rgba(255, 255, 255, 0.6)" ->
           << "r", "g", "b", "a", "(", "2", "5", "5", ",", " ", "2", "5", "5", ",", " ", "2", "5", "5", ",", " ", "0", ".", "6", ")" >>
      [] color = "rgba(46, 204, 113, 0.2)" ->
           << "r", "g", "b", "a", "(", "4", "6", ",", " ", "2", "0", "4", ",", " ", "1", "1", "3", ",", " ", "0", ".", "2", ")" >>
      [] color = "rgba(46, 204, 113, 0.15)" ->
           << "r", "g", "b", "a", "(", "4", "6", ",", " ", "2", "0", "4", ",", " ", "1", "1", "3", ",", " ", "0", ".", "1", "5", ")" >>
      [] color = "rgba(148, 163, 184, 0.1)" ->
           << "r", "g", "b", "a", "(", "1", "4", "8", ",", " ", "1", "6", "3", ",", " ", "1", "8", "4", ",", " ", "0", ".", "1", ")" >>

Matches(text, pat, at) ==
    /\ at + Len(pat) - 1 <= Len(text)
    /\ \A n \in 1 .. Len(pat) : text[at + n - 1] = pat[n]

\* String.prototype.replace with a string pattern: the first occurrence only
Replace(text, pat, by) ==
    LET hits == { at \in 1 .. Len(text) : Matches(text, pat, at) }
    IN  IF hits = {} THEN text
        ELSE LET at == CHOOSE h \in hits : \A g \in hits : h <= g
             IN  SubSeq(text, 1, at - 1) \o by \o SubSeq(text, at + Len(pat), Len(text))

RECURSIVE NatChars(_)
NatChars(n) ==
    IF n < 10 THEN << Digits[n + 1] >> ELSE NatChars(n \div 10) \o << Digits[(n % 10) + 1] >>

FracChars(f) ==
    LET d == << f \div 100, (f \div 10) % 10, f % 10 >>
        last == CHOOSE n \in 1 .. 3 : d[n] # 0 /\ \A m \in (n + 1) .. 3 : d[m] = 0
    IN  [n \in 1 .. last |-> Digits[d[n] + 1]]

\* Number to string, of a ratio
NumberToString(a) ==
    IF ~Finite(a) THEN << "N", "a", "N" >>
    ELSE LET n == IF Val(a) < 0 THEN -Val(a) ELSE Val(a)
         IN  (IF Val(a) < 0 THEN << "-" >> ELSE << >>)
             \o NatChars(n \div One)
             \o (IF n % One = 0 THEN << >> ELSE << "." >> \o FracChars(n % One))

DigitVal(c) == (CHOOSE d \in 1 .. 10 : Digits[d] = c) - 1

RECURSIVE NatVal(_)
NatVal(cs) ==
    IF cs = << >> THEN 0
    ELSE NatVal(SubSeq(cs, 1, Len(cs) - 1)) * 10 + DigitVal(cs[Len(cs)])

\* the number a CSS colour parser reads from the characters of an alpha value
ParseNumber(cs) ==
    IF cs = << >> \/ \E n \in 1 .. Len(cs) : cs[n] \notin Range(Digits) \cup { "." }
    THEN NaN
    ELSE LET dots == { n \in 1 .. Len(cs) : cs[n] = "." }
             dot == IF dots = {} THEN Len(cs) + 1 ELSE CHOOSE n \in dots : \A m \in dots : n <= m
             frac == SubSeq(cs, dot + 1, Len(cs))
             D(n) == IF n <= Len(frac) THEN DigitVal(frac[n]) ELSE 0
         IN  Num(NatVal(SubSeq(cs, 1, dot - 1)) * One + 100 * D(1) + 10 * D(2) + D(3))

\* the alpha of 'rgba(r, g, b, a)': what stands between the last ', ' and ')'
Alpha(text) ==
    LET commas == { n \in 1 .. Len(text) : text[n] = "," }
        last == CHOOSE n \in commas : \A m \in commas : m <= n
    IN  ParseNumber(SubSeq(text, last + 2, Len(text) - 1))

(* Particle and GeometricParticle *)

WrapLowOnly(c, size) ==
    IF Less(c, Num(0)) THEN Num(size) ELSE c

Wrap(c, size) ==
    LET c1 == IF Less(c, Num(0)) THEN Num(size) ELSE c
    IN  IF Less(Num(size), c1) THEN Num(0) ELSE c1

ParticleUpdate(p, canvas, mouse, config) ==
    LET angle == (p.angle + 1) % 4
        x == Wrap(Add(p.x, p.vx), canvas.width)
        y == Wrap(Add(Add(p.y, p.vy), Scaled(Num(SinQuarter(angle)), Scale, 2 * One)), canvas.height)
        dx == Sub(Num(mouse.x), x)
        dy == Sub(Num(mouse.y), y)
        distance == Sqrt(Add(Mul(dx, dx), Mul(dy, dy)))
        near == /\ config.mouseInteraction
                /\ mouse.x > -500 * Scale
                /\ Less(distance, Num(config.mouseRadius))
        force == Quot(Sub(Num(config.mouseRadius), distance), Num(config.mouseRadius))
        pushX == Scaled(Mul(CosAtan2(dy, dx, distance), force), Scale, 2 * One * One)
        pushY == Scaled(Mul(SinAtan2(dy, dx, distance), force), Scale, 2 * One * One)
        vx1 == IF near THEN Sub(p.vx, pushX) ELSE p.vx
        vy1 == IF near THEN Sub(p.vy, pushY) ELSE p.vy
    IN  [p EXCEPT !.x = x,
                  !.y = y,
                  !.angle = angle,
                  !.vx = Add(Scaled(vx1, 99, 100), Scaled(Sub(p.originalX, x), 1, 1000)),
                  !.vy = Add(Scaled(vy1, 99, 100), Scaled(Sub(p.originalY, y), 1, 1000))]

GeometricParticleUpdate(p, canvas, mouse, config) ==
    [ParticleUpdate(p, canvas, mouse, config) EXCEPT !.rotation = (@ + 1) % 4]

\* the fill styles draw() sets, in order: the core disc, then the glow disc
ParticleDraw(p, config) ==
    << Replace(Chars(config.particleColor), << "0", ".", "6" >>, NumberToString(p.opacity)),
       Replace(Chars(config.particleColor), << "0", ".", "6" >>, NumberToString(Scaled(p.opacity, 1, 10))) >>

\* the stroke style draw() sets for the shape
GeometricParticleDraw(p, config) ==
    << Replace(Chars(config.particleColor), << "0", ".", "6" >>, NumberToString(p.opacity)) >>

(* What animate() does, as the events of one frame *)

Event(op, i, j, style, from, to) ==
    [op |-> op, i |-> i, j |-> j, style |-> style, from |-> from, to |-> to]

At(p) == << p.x, p.y >>

Loop(n) ==
    SelectSeq([t \in 1 .. n * n |-> << ((t - 1) \div n) + 1, ((t - 1) % n) + 1 >>],
              LAMBDA q : q[2] >= q[1] + 1)

Distance(a, b) ==
    LET dx == Sub(a.x, b.x)
        dy == Sub(a.y, b.y)
    IN  Sqrt(Add(Mul(dx, dx), Mul(dy, dy)))

Connection(ps, config, q) ==
    LET distance == Distance(ps[q[1]], ps[q[2]])
        opacity == Quot(Sub(Num(config.connectionDistance), distance), Num(config.connectionDistance))
    IN  Event("line", q[1], q[2],
              Replace(Chars(config.connectionColor), << "0", ".", "2" >>, NumberToString(Scaled(opacity, 2, 10))),
              At(ps[q[1]]), At(ps[q[2]]))

Connected(ps, config, q) ==
    Less(Distance(ps[q[1]], ps[q[2]]), Num(config.connectionDistance))

DrawConnectionsEveryPair(ps, config) ==
    LET n == Len(ps)
        all == [t \in 1 .. n * n |-> << ((t - 1) \div n) + 1, ((t - 1) % n) + 1 >>]
        drawn == SelectSeq(all, LAMBDA q : Connected(ps, config, q))
    IN  [t \in 1 .. Len(drawn) |-> Connection(ps, config, drawn[t])]

DrawConnectionsAtThreshold(ps, config) ==
    LET drawn == SelectSeq(Loop(Len(ps)),
                           LAMBDA q : ~Less(Num(config.connectionDistance), Distance(ps[q[1]], ps[q[2]])))
    IN  [t \in 1 .. Len(drawn) |-> Connection(ps, config, drawn[t])]

DrawConnections(ps, config) ==
    LET drawn == SelectSeq(Loop(Len(ps)), LAMBDA q : Connected(ps, config, q))
    IN  [t \in 1 .. Len(drawn) |-> Connection(ps, config, drawn[t])]

UpdateAndDraw(st, ps) ==
    [t \in 1 .. 2 * Len(ps) |->
        IF t % 2 = 1
        THEN Event("update", (t + 1) \div 2, 0, << >>, At(st.particles[(t + 1) \div 2]), At(ps[(t + 1) \div 2]))
        ELSE Event("draw", t \div 2, 0,
                   IF st.geometric THEN GeometricParticleDraw(ps[t \div 2], st.config)
                   ELSE ParticleDraw(ps[t \div 2], st.config),
                   At(ps[t \div 2]), At(ps[t \div 2]))]

Updated(st) ==
    [i \in 1 .. Len(st.particles) |->
        IF st.geometric
        THEN GeometricParticleUpdate(st.particles[i], st.canvas, st.mouse, st.config)
        ELSE ParticleUpdate(st.particles[i], st.canvas, st.mouse, st.config)]

AnimateFrameConnectsFirst(st) ==
    LET ps == Updated(st)
    IN  [stage |-> [st EXCEPT !.particles = ps, !.frame = @ + 1],
         log |-> << Event("clearRect", 0, 0, << >>, << >>, << >>) >>
                 \o DrawConnections(st.particles, st.config)
                 \o UpdateAndDraw(st, ps)
                 \o << Event("requestAnimationFrame", 0, 0, << >>, << >>, << >>) >>]

AnimateFrame(st) ==
    LET ps == Updated(st)
    IN  [stage |-> [st EXCEPT !.particles = ps, !.frame = @ + 1],
         log |-> << Event("clearRect", 0, 0, << >>, << >>, << >>) >>
                 \o UpdateAndDraw(st, ps)
                 \o DrawConnections(ps, st.config)
                 \o << Event("requestAnimationFrame", 0, 0, << >>, << >>, << >>) >>]

(* The stages: a configuration, a surface and the particles createParticles put on
   it, in pixels; velocities in 1/Scale pixel per frame *)

Px(n) == n * Scale

Placed(x, y, vx, vy, angle, opacity) ==
    [x |-> Num(Px(x)), y |-> Num(Px(y)), originalX |-> Num(Px(x)), originalY |-> Num(Px(y)),
     vx |-> Num(vx), vy |-> Num(vy), angle |-> angle, rotation |-> 0, opacity |-> Num(opacity)]

Staged(geometric, options, width, height, particles) ==
    LET c == Config(options)
    IN  [geometric |-> geometric,
         canvas |-> [width |-> Px(width), height |-> Px(height)],
         mouse |-> [x |-> 0, y |-> 0],
         config |-> [c EXCEPT !.connectionDistance = Px(@), !.mouseRadius = Px(@)],
         particles |-> particles,
         frame |-> 0,
         pointer |-> "none"]

Still == << Placed(110, 110, 0, 0, 1, 500), Placed(125, 130, 0, 0, 1, 750), Placed(140, 150, 0, 0, 1, 900) >>

Drifting == << Placed(50, 50, 0, 0, 1, 500), Placed(86, 98, 0, 0, 1, 750), Placed(0, 100, -25, 4, 0, 900),
               Placed(300, 0, 25, -12, 2, 500) >>

Stages ==
    { Staged(FALSE, [particleCount |-> 10, connectionDistance |-> 50], 300, 200, Still),
      Staged(FALSE, [particleCount |-> 10, connectionDistance |-> 50], 300, 200,
             << Placed(110, 110, 0, 0, 1, 750), Placed(161, 110, 0, 0, 1, 900) >>),
      Staged(FALSE, HeroOptions(WideHost), 300, 200, Drifting),
      Staged(FALSE, GetOptionsForType("subtle", WideHost), 300, 200, Still),
      Staged(TRUE, GetOptionsForType("geometric", WideHost), 300, 200, Drifting),
      Staged(FALSE, GetOptionsForType("floating", WideHost), 300, 200, Still),
      Staged(FALSE, GetOptionsForType("default", WideHost), 300, 200, Drifting),
      Staged(FALSE, [connectionDistance |-> 0, mouseRadius |-> 0], 300, 200,
             << Placed(20, 20, 0, 0, 1, 500), Placed(20, 20, 0, 0, 1, 750), Placed(60, 20, 0, 0, 1, 900) >>),
      Staged(FALSE, [particleCount |-> 2], 0, 0,
             << Placed(0, 0, 3, -2, 0, 500), Placed(0, 0, -3, 2, 2, 750) >>) }

MousePoints == { << 20, 20 >>, << 60, 95 >> }

InitStage ==
    /\ pc = "stage"
    /\ env = WideHost
    /\ doc = << >>
    /\ hidden = FALSE
    /\ rect = << 0, 0 >>
    /\ elapsed = 0
    /\ created = << >>
    /\ inst = << >>
    /\ systems = << >>
    /\ rafQueue = << >>
    /\ gov = [isHighPerformance |-> TRUE, frames |-> 0, started |-> FALSE]
    /\ optimizeRuns = 0
    /\ lowAgain = FALSE
    /\ stage \in Stages
    /\ frameLog = << >>

StageUnchanged ==
    UNCHANGED <<pc, env, doc, hidden, rect, elapsed, created, inst, systems, rafQueue, gov,
                optimizeRuns, lowAgain>>

AnimateStage ==
    /\ stage.frame < MaxFrames
    /\ stage' = AnimateFrame(stage).stage
    /\ frameLog' = AnimateFrame(stage).log
    /\ StageUnchanged

MouseMove ==
    /\ stage.config.mouseInteraction
    /\ \E m \in MousePoints :
          stage' = [stage EXCEPT !.mouse = [x |-> Px(m[1]), y |-> Px(m[2])], !.pointer = "moved"]
    /\ UNCHANGED frameLog
    /\ StageUnchanged

MouseLeave ==
    /\ stage.config.mouseInteraction
    /\ stage' = [stage EXCEPT !.mouse = [x |-> Px(-1000), y |-> Px(-1000)], !.pointer = "left"]
    /\ UNCHANGED frameLog
    /\ StageUnchanged

NextStage ==
    \/ AnimateStage
    \/ MouseMove
    \/ MouseLeave

SpecStage == InitStage /\ [][NextStage]_vars

-----------------------------------------------------------------------------
(* Properties *)

WorldNext ==
    [inst |-> inst', raf |-> rafQueue', systems |-> systems', created |-> created',
     gov |-> gov', optimizeRuns |-> optimizeRuns', lowAgain |-> lowAgain']

Requests(k) == Cardinality(Outstanding(rafQueue, k))

RequestsNext(k) == Cardinality(Outstanding(rafQueue', k))

Instances == DOMAIN inst

Destroyed(k) == ~inst[k].canvas.attached

TypeOfSection(index) ==
    LET tag == doc[ParticleSections(doc, 1)[index + 1]].tag
    IN  IF tag = "" THEN "default" ELSE tag

BaseCount(k) ==
    CASE k = "hero-0" -> HeroOptions(env).particleCount
      [] k = "hero-1" -> HeroOptions(env).particleCount
      [] k = "section-0" -> GetOptionsForType(TypeOfSection(0), env).particleCount
      [] k = "section-1" -> GetOptionsForType(TypeOfSection(1), env).particleCount

\* C1: in every reachable state each instance has at most one outstanding frame
\* request, and its animationId is non-null exactly when that request exists
\* (and is then the handle of that request).
C1_AtMostOneRequest ==
    \A k \in Instances :
        /\ Requests(k) <= 1
        /\ (inst[k].animationId # Null) <=> (Requests(k) = 1)
        /\ \A j \in Outstanding(rafQueue, k) : rafQueue[j].id = inst[k].animationId

\* C1 witness: after the governor's mitigation, one instance has been destroyed
\* and holds no request while another instance holds exactly one.
C1_Witness ==
    /\ optimizeRuns = 1
    /\ \E k, j \in Instances :
          /\ Destroyed(k) /\ inst[k].animationId = Null /\ Requests(k) = 0
          /\ ~Destroyed(j) /\ inst[j].animationId # Null /\ Requests(j) = 1

\* C2: pause() leaves zero outstanding requests and a null handle, and on an
\* already paused instance changes nothing; while an instance is paused no frame
\* of it is painted except by a step that calls resume(); resume() on a paused
\* instance leaves exactly one outstanding request.
C2_PauseExact ==
    [][\A k \in Instances :
          /\ PauseCall(k) =>
                /\ RequestsNext(k) = 0
                /\ inst'[k].animationId = Null
                /\ (inst[k].animationId = Null => UNCHANGED vars)
          /\ (inst[k].animationId = Null /\ inst'[k].frameCount # inst[k].frameCount) =>
                (ResumeCall(k) \/ ResumeAllCall \/ (VisibilityChange /\ hidden))
          /\ (ResumeCall(k) /\ inst[k].animationId = Null) =>
                (RequestsNext(k) = 1 /\ inst'[k].animationId # Null)]_vars

\* C2 witness: on a visible page an attached instance is paused: pause() has
\* cancelled the request its construction registered.
C2_Witness ==
    \E k \in Instances :
        ~hidden /\ ~Destroyed(k) /\ inst[k].animationId = Null /\ Requests(k) = 0

\* C3 (as claimed): an instance whose surface destroy() has detached never has an
\* outstanding frame request again.
C3_DestroyedStaysStopped ==
    \A k \in Instances :
        Destroyed(k) => (inst[k].animationId = Null /\ Requests(k) = 0)

\* C4 (as claimed): a resize delivered to a destroyed instance leaves its surface
\* size, its particle count and its particle set unchanged.
C4_ResizeDestroyedNoop ==
    [][Resize =>
          \A k \in Instances :
              Destroyed(k) =>
                  /\ inst'[k].canvas = inst[k].canvas
                  /\ inst'[k].config.particleCount = inst[k].config.particleCount
                  /\ inst'[k].particles = inst[k].particles]_vars

\* C5: destroy() leaves the instance with no outstanding request, a null handle
\* and a detached surface, and a second destroy() right after it changes nothing.
C5_DestroyIdempotent ==
    [][\A k \in Instances :
          DestroyCall(k) =>
              /\ RequestsNext(k) = 0
              /\ inst'[k].animationId = Null
              /\ ~inst'[k].canvas.attached
              /\ Destroy(WorldNext, k) = WorldNext]_vars

\* C5 witness: a destroyed instance: detached surface, null handle, no request.
C5_Witness ==
    \E k \in Instances :
        Destroyed(k) /\ inst[k].animationId = Null /\ Requests(k) = 0

\* C6 (as claimed): after every resize the count of a responsive instance is
\* floor(baseCount * min(1, area / (1920 * 1080))), baseCount being the count it
\* was configured with at creation.
C6_ResizeFromBaseCount ==
    [][Resize =>
          \A k \in Instances :
              inst[k].config.responsive =>
                  inst'[k].config.particleCount = ScaledCount(BaseCount(k), rect')]_vars

\* C7: when a frame tick closes a window with fewer than 30 counted frames while
\* the flag is high-performance, the flag becomes low-performance and every
\* instance of the registry gets floor(count * 0.6) as its count and a rebuilt
\* particle set of exactly that many particles.
C7_Mitigation ==
    [][(FineFrameTick /\ gov.started /\ gov.isHighPerformance
            /\ gov'.frames = 0 /\ gov.frames + 1 < MinFps) =>
          /\ ~gov'.isHighPerformance
          /\ \A k \in Range(systems) :
                /\ 10 * inst'[k].config.particleCount <= 6 * inst[k].config.particleCount
                /\ 6 * inst[k].config.particleCount < 10 * (inst'[k].config.particleCount + 1)
                /\ Len(inst'[k].particles) = inst'[k].config.particleCount
                /\ inst'[k].builds # inst[k].builds
                /\ \A j \in DOMAIN inst'[k].particles :
                      inst'[k].particles[j].build = inst'[k].builds]_vars

\* C7 witness: the mitigation has run on a registry of two instances, which now
\* hold floor(60 * 0.6) = 36 and floor(20 * 0.6) = 12 particles.
C7_Witness ==
    /\ optimizeRuns = 1
    /\ ~gov.isHighPerformance
    /\ Len(systems) = 2
    /\ Len(inst["hero-0"].particles) = 36
    /\ Len(inst["section-0"].particles) = 12

\* C8: the flag never changes from low-performance back to high-performance, and
\* optimizeParticles runs at most once, however many low windows follow.
C8_OneWayOnce ==
    [][/\ ~gov.isHighPerformance => ~gov'.isHighPerformance
       /\ optimizeRuns' <= 1]_vars

\* C8 witness: after the one mitigation a further window with fewer than 30 frames
\* has closed.
C8_Witness ==
    optimizeRuns = 1 /\ lowAgain /\ ~gov.isHighPerformance

\* C9: no instance exists before startup, and none is ever created when capability
\* detection lowered the flag (no 2D context, width below 768, device memory hint
\* below 4, or connection 'slow-2g'): the registry stays empty and no surface or
\* frame request of an instance exists.
C9_StartupGate ==
    (\/ pc = "loading"
     \/ ~env.ctx2d
     \/ env.innerWidth < 768
     \/ (env.deviceMemory # 0 /\ env.deviceMemory < 4)
     \/ env.effectiveType = "slow-2g") =>
        /\ systems = << >>
        /\ created = << >>
        /\ Instances = {}
        /\ \A j \in DOMAIN rafQueue : rafQueue[j].owner = GovOwner

\* C9 witness: startup is over on a host whose device memory hint is 2; the
\* governor samples frames and the registry is empty.
C9_Witness ==
    /\ pc = "ready"
    /\ env.deviceMemory = 2
    /\ gov.started
    /\ gov.frames > 0
    /\ systems = << >>

\* C10 (as claimed): resume() on a paused instance leaves exactly one outstanding
\* request and itself paints no frame and updates no particle.
C10_ResumeOnlyRearms ==
    [][\A k \in Instances :
          (ResumeCall(k) /\ inst[k].animationId = Null) =>
              /\ RequestsNext(k) = 1
              /\ inst'[k].frameCount = inst[k].frameCount
              /\ inst'[k].particles = inst[k].particles]_vars

\* C11: resume() on an instance that already has an outstanding frame request
\* changes nothing: no further request, no frame painted, the particle set and
\* every other part of the state as before.
C11_ResumeIdempotent ==
    [][\A k \in Instances :
          (ResumeCall(k) /\ inst[k].animationId # Null) =>
              /\ RequestsNext(k) = Requests(k)
              /\ inst'[k] = inst[k]
              /\ UNCHANGED vars]_vars

\* C11 witness: on a visible page a registered, attached instance is running after a
\* frame tick: it holds the one request on which resume() returns at once.
C11_Witness ==
    /\ ~hidden
    /\ gov.frames > 0
    /\ \E k \in Range(systems) :
          ~Destroyed(k) /\ inst[k].animationId # Null /\ Requests(k) = 1

\* C12: the step of a visibility event to hidden leaves every attached instance of
\* the registry with no outstanding request, and the step of a visibility event to
\* visible leaves every such instance with exactly one, although the registry's
\* handler and the instance's own listener both act on the event.
C12_VisibilityExact ==
    [][VisibilityChange =>
          \A k \in Range(systems) :
              inst[k].canvas.attached =>
                  /\ hidden' => (RequestsNext(k) = 0 /\ inst'[k].animationId = Null)
                  /\ ~hidden' => (RequestsNext(k) = 1 /\ inst'[k].animationId # Null)]_vars

\* C12 witness: a page that was loaded hidden is visible, no frame tick has run yet,
\* and both instances of its registry hold exactly one request and have painted a
\* second frame (the one resume() paints).
C12_Witness ==
    /\ ~hidden
    /\ gov.started /\ gov.frames = 0 /\ gov.isHighPerformance
    /\ Len(systems) = 2
    /\ \A k \in Range(systems) :
          /\ ~Destroyed(k)
          /\ Requests(k) = 1
          /\ inst[k].frameCount = 2 % FrameMod

\* C13: pauseAll(), resumeAll() and destroyAll() do to every instance of the
\* registry what pause(), resume() and destroy() do to it; destroyAll() leaves the
\* registry empty and every instance that was in it without an outstanding request
\* and without an attached surface.
C13_FanOut ==
    [][/\ PauseAllCall =>
             \A k \in Range(systems) :
                 /\ inst'[k] = Pause(World, k).inst[k]
                 /\ RequestsNext(k) = 0
       /\ ResumeAllCall =>
             \A k \in Range(systems) :
                 /\ inst'[k].animationId # Null
                 /\ RequestsNext(k) = 1
                 /\ (inst[k].animationId = Null) =>
                        inst'[k].frameCount = Resume(World, k).inst[k].frameCount
                 /\ (inst[k].animationId # Null) => inst'[k] = inst[k]
       /\ BeforeUnload =>
             /\ systems' = << >>
             /\ \A k \in Range(systems) :
                   /\ inst'[k] = Destroy(World, k).inst[k]
                   /\ RequestsNext(k) = 0
                   /\ ~inst'[k].canvas.attached]_vars

\* C13 witness: destroyAll() has run on a registry of two instances: the registry
\* is empty and neither instance has a request or an attached surface.
C13_Witness ==
    /\ systems = << >>
    /\ Len(created) = 2
    /\ \A k \in Instances : Destroyed(k) /\ Requests(k) = 0 /\ inst[k].animationId = Null

\* C14 (as claimed): after startup every container of the document has at most one
\* instance, also a container that carries both the hero and the data-particles
\* marker.
C14_OneInstancePerContainer ==
    pc = "ready" =>
        \A c \in DOMAIN doc :
            Cardinality({ k \in Instances : inst[k].container = c }) <= 1

FrameRan == frameLog # << >>

LineEvents == { t \in DOMAIN frameLog : frameLog[t].op = "line" }

\* C15 (as claimed): every connection of the last frame is stroked with the alpha
\* of the configured connection colour times (threshold - distance) / threshold,
\* for each of the registry's presets.
C15_ConnectionAlpha ==
    \A t \in LineEvents :
        LET e == frameLog[t]
            threshold == stage.config.connectionDistance
            distance == Distance(stage.particles[e.i], stage.particles[e.j])
        IN  Alpha(e.style) =
                Scaled(Alpha(Chars(stage.config.connectionColor)), threshold - Val(distance), threshold)

\* C16: in the last frame every unordered pair of distinct particles has exactly
\* one connection line if its distance is strictly below the threshold and none
\* otherwise, and no line joins a particle to itself.
C16_OneLinePerClosePair ==
    FrameRan =>
        /\ \A t \in LineEvents : frameLog[t].i # frameLog[t].j
        /\ \A i, j \in DOMAIN stage.particles :
              i < j =>
                  LET a == stage.particles[i]
                      b == stage.particles[j]
                      dx == Val(a.x) - Val(b.x)
                      dy == Val(a.y) - Val(b.y)
                      threshold == stage.config.connectionDistance
                      drawn == { t \in LineEvents : { frameLog[t].i, frameLog[t].j } = { i, j } }
                  IN  Cardinality(drawn) = IF dx * dx + dy * dy < threshold * threshold THEN 1 ELSE 0

\* C16 witness: a frame in which one pair of three particles is exactly at the
\* threshold of 50 px and has no line while the two pairs at 25 px have one each.
C16_Witness ==
    /\ FrameRan
    /\ stage.config.connectionDistance = Px(50)
    /\ Len(stage.particles) = 3
    /\ Distance(stage.particles[1], stage.particles[3]) = Num(Px(50))
    /\ Distance(stage.particles[1], stage.particles[2]) = Num(Px(25))
    /\ Cardinality(LineEvents) = 2

\* C17: in every reachable state, so after construction and after every rebuild by
\* a resize or by the governor's mitigation, an instance holds exactly as many
\* particles as its configured count, which is a natural number.
C17_CountMatches ==
    \A k \in Instances :
        /\ inst[k].config.particleCount \in Nat
        /\ Len(inst[k].particles) = inst[k].config.particleCount

\* C17 witness: the hero instance after a resize to 960 x 540 and the mitigation:
\* floor(floor(60 / 4) * 0.6) = 9 particles, and 9 is its configured count.
C17_Witness ==
    /\ optimizeRuns = 1
    /\ rect = << 960, 540 >>
    /\ "hero-0" \in Instances
    /\ inst["hero-0"].config.particleCount = 9
    /\ Len(inst["hero-0"].particles) = 9

\* C18: every update leaves each particle, plain or shape variant, inside the
\* surface, 0 <= x <= width and 0 <= y <= height; a particle that stepped out below
\* 0 is at the far edge and one that stepped out beyond the far edge is at 0.
C18_Wrap ==
    [][AnimateStage =>
          \A i \in DOMAIN stage.particles :
              LET p == stage.particles[i]
                  q == stage'.particles[i]
                  x == Val(p.x) + Val(p.vx)
                  y == Val(p.y) + Val(p.vy) + Trunc(SinQuarter(p.angle + 1) * Scale, 2 * One)
                  width == stage.canvas.width
                  height == stage.canvas.height
              IN  /\ Finite(q.x) /\ Finite(q.y)
                  /\ 0 <= Val(q.x) /\ Val(q.x) <= width
                  /\ 0 <= Val(q.y) /\ Val(q.y) <= height
                  /\ Val(q.x) = IF x < 0 THEN width ELSE IF x > width THEN 0 ELSE x
                  /\ Val(q.y) = IF y < 0 THEN height ELSE IF y > height THEN 0 ELSE y]_vars

\* C18 witness: on a surface of shape particles one particle that left at the left
\* edge stands at x = width and one that left at the right edge and at the top
\* stands at x = 0 and y = height.
C18_Witness ==
    /\ FrameRan
    /\ stage.geometric
    /\ stage.canvas.width > 0
    /\ \E i, j \in DOMAIN stage.particles :
          /\ stage.particles[i].x = Num(stage.canvas.width)
          /\ stage.particles[i].originalX = Num(0)
          /\ stage.particles[j].x = Num(0)
          /\ stage.particles[j].y = Num(stage.canvas.height)
          /\ stage.particles[j].originalY = Num(0)

\* C19: in the last frame every particle has one update directly followed by its
\* draw, at the position the update gave it; every connection line comes after the
\* draw of every particle and joins the current positions of its two particles; the
\* frame request is the last event, after the connection pass.
C19_FrameOrder ==
    FrameRan =>
        /\ \A i \in DOMAIN stage.particles :
              /\ frameLog[2 * i].op = "update" /\ frameLog[2 * i].i = i
              /\ frameLog[2 * i + 1].op = "draw" /\ frameLog[2 * i + 1].i = i
              /\ frameLog[2 * i].to = At(stage.particles[i])
              /\ frameLog[2 * i + 1].from = At(stage.particles[i])
        /\ \A t \in DOMAIN frameLog :
              /\ frameLog[t].op \in { "update", "draw" } => t <= 2 * Len(stage.particles) + 1
              /\ frameLog[t].op = "line" =>
                    /\ t > 2 * Len(stage.particles) + 1
                    /\ frameLog[t].from = At(stage.particles[frameLog[t].i])
                    /\ frameLog[t].to = At(stage.particles[frameLog[t].j])
              /\ frameLog[t].op = "requestAnimationFrame" <=> t = Len(frameLog)

\* C19 witness: a second frame in which a particle that moved in this frame is an
\* endpoint of a connection line.
C19_Witness ==
    /\ stage.frame >= 2
    /\ \E t \in LineEvents :
          /\ frameLog[2 * frameLog[t].i].from # frameLog[2 * frameLog[t].i].to
          /\ frameLog[t].from = frameLog[2 * frameLog[t].i].to

\* C20: a frame with connection distance 0 draws no connection line, a frame with
\* mouse radius 0 gives no particle a repulsion impulse (its velocity changes by
\* friction and the return force alone), and after every frame every coordinate,
\* every velocity and the alpha of every line drawn is a number, not NaN.
C20_ZeroThresholds ==
    [][AnimateStage =>
          /\ stage.config.connectionDistance = 0 =>
                \A t \in DOMAIN frameLog' : frameLog'[t].op # "line"
          /\ stage.config.mouseRadius = 0 =>
                \A i \in DOMAIN stage.particles :
                    LET p == stage.particles[i]
                        q == stage'.particles[i]
                    IN  /\ q.vx = Add(Scaled(p.vx, 99, 100), Scaled(Sub(p.originalX, q.x), 1, 1000))
                        /\ q.vy = Add(Scaled(p.vy, 99, 100), Scaled(Sub(p.originalY, q.y), 1, 1000))
          /\ \A i \in DOMAIN stage'.particles :
                LET q == stage'.particles[i]
                IN  Finite(q.x) /\ Finite(q.y) /\ Finite(q.vx) /\ Finite(q.vy)
          /\ \A t \in DOMAIN frameLog' :
                frameLog'[t].op = "line" => Finite(Alpha(frameLog'[t].style))]_vars

\* C20 witness: a frame has run with connection distance 0 and mouse radius 0 while
\* two particles stood on the same point and the pointer on that point: distance 0
\* to the pointer and between the two, and no line was drawn.
C20_Witness ==
    /\ FrameRan
    /\ stage.config.connectionDistance = 0
    /\ stage.config.mouseRadius = 0
    /\ At(stage.particles[1]) = At(stage.particles[2])
    /\ At(stage.particles[1]) = << Num(stage.mouse.x), Num(stage.mouse.y) >>
    /\ LineEvents = {}

\* C22 (as claimed): no step changes any field of the configuration of an existing
\* instance, the particle count included.
C22_ConfigImmutable ==
    [][\A k \in Instances : inst'[k].config = inst[k].config]_vars

C27_HiddenDoesNotFlip ==
    [][(gov.started /\ gov.isHighPerformance /\ ~gov'.isHighPerformance) =>
          elapsed < WindowMs]_vars

\* C28: a step that rebuilds an instance's particle set, a resize or the governor's
\* mitigation, leaves a paused instance paused, with no request and no frame
\* painted, and an active instance with exactly one request; the resize leaves the
\* handle itself and the painted frames as they were.
C28_RebuildKeepsHandle ==
    [][\A k \in Instances :
          inst'[k].builds # inst[k].builds =>
              /\ inst[k].animationId = Null =>
                    /\ inst'[k].animationId = Null
                    /\ RequestsNext(k) = 0
                    /\ inst'[k].frameCount = inst[k].frameCount
              /\ inst[k].animationId # Null =>
                    /\ inst'[k].animationId # Null
                    /\ RequestsNext(k) = 1
              /\ optimizeRuns' = optimizeRuns =>
                    /\ inst'[k].animationId = inst[k].animationId
                    /\ inst'[k].frameCount = inst[k].frameCount
                    /\ rafQueue' = rafQueue]_vars

\* C28 witness: a paused, attached instance of the registry after the mitigation
\* and in a container of another size than the reference: rebuilt with 9 particles,
\* and still without a request.
C28_Witness ==
    /\ optimizeRuns = 1
    /\ rect = << 960, 540 >>
    /\ ~hidden
    /\ \E k \in Range(systems) :
          /\ ~Destroyed(k)
          /\ inst[k].animationId = Null /\ Requests(k) = 0
          /\ Len(inst[k].particles) = 9

\* C29: no step increases the particle count of an instance or makes it negative,
\* and a count of 0 stays 0, also when the container grows beyond the reference
\* area.
C29_CountNeverGrows ==
    [][\A k \in Instances :
          /\ inst'[k].config.particleCount <= inst[k].config.particleCount
          /\ inst'[k].config.particleCount >= 0
          /\ inst[k].config.particleCount = 0 => inst'[k].config.particleCount = 0]_vars

\* C29 witness: an instance whose count has come down to 0 stands in a container
\* larger than the reference area, with no particle.
C29_Witness ==
    /\ rect = << 2560, 1440 >>
    /\ \E k \in Instances :
          /\ inst[k].config.particleCount = 0
          /\ inst[k].particles = << >>
          /\ ~Destroyed(k)

Touched == { k \in Instances : inst'[k] # inst[k] }

OwnRequests(q, k) == { q[j] : j \in Outstanding(q, k) }

C21_PointerSentinel ==
    [][/\ stage'.pointer # "moved" =>
             stage'.mouse = [x |-> Px(-1000), y |-> Px(-1000)]
       /\ (AnimateStage /\ stage.pointer # "moved") =>
             \A i \in DOMAIN stage.particles :
                 LET p == stage.particles[i]
                     q == stage'.particles[i]
                 IN  /\ q.vx = Add(Scaled(p.vx, 99, 100), Scaled(Sub(p.originalX, q.x), 1, 1000))
                     /\ q.vy = Add(Scaled(p.vy, 99, 100), Scaled(Sub(p.originalY, q.y), 1, 1000))]_vars

\* C24 (as claimed): in the last frame every particle drawn as a disc has its core
\* filled with the particle colour at the particle's own opacity and its glow at
\* that opacity times 0.1, and every shape is stroked at the particle's own
\* opacity, for each of the registry's presets.
C24_ParticleAlpha ==
    \A t \in DOMAIN frameLog :
        frameLog[t].op = "draw" =>
            LET p == stage.particles[frameLog[t].i]
                styles == frameLog[t].style
            IN  /\ Alpha(styles[1]) = p.opacity
                /\ ~stage.geometric =>
                      /\ Len(styles) = 2
                      /\ Alpha(styles[2]) = Scaled(p.opacity, 1, 10)

\* C26: an active instance (frame handle set) executes a frame on every tick the
\* host delivers and ends it with exactly one new frame request, so it stays
\* active; and while ticks keep coming to a visible page, an active instance
\* always gets to execute a further frame unless it is paused or destroyed first.
Active(k) == k \in DOMAIN inst /\ inst[k].animationId # Null

FrameExecuted(k) ==
    /\ inst'[k].frameCount = (inst[k].frameCount + 1) % FrameMod
    /\ \A j \in DOMAIN inst'[k].particles : inst'[k].particles[j].updated
    /\ Cardinality(Outstanding(rafQueue', k)) = 1
    /\ inst'[k].animationId # Null

C26_FrameLoopLive ==
    /\ [][\A k \in Keys :
             (Active(k) /\ ~hidden /\ pc = "ready" /\ ~FrameExecuted(k)) => ~FrameTick]_vars
    /\ \A k \in Keys : \A c \in 0 .. FrameMod - 1 :
           (Active(k) /\ ~hidden /\ inst[k].frameCount = c)
               ~> (~Active(k) \/ inst[k].frameCount # c)

C26_Witness ==
    /\ pc = "ready" /\ ~hidden
    /\ gov.frames >= 1
    /\ \E k \in Keys :
           /\ Active(k)
           /\ Cardinality(Outstanding(rafQueue, k)) = 1
           /\ \A j \in DOMAIN inst[k].particles : inst[k].particles[j].updated

====
